---- MODULE Spec2Model ----
(***************************************************************************)
(* Vehicle damage estimation: severity aggregation (utils/severity.py),    *)
(* cost estimation (utils/cost_estimator.py), report generation            *)
(* (utils/report_generator.py), scan persistence (database/db.py) and the  *)
(* two request handlers (app.py analyze, main.py analyze_image).           *)
(*                                                                         *)
(* Numbers.  The Python code computes in binary floating point (IEEE 754   *)
(* double precision, round to nearest even) and rounds with round(x, 2) /  *)
(* round(x).  The model computes the same expressions on the same doubles: *)
(* a double is [m, e] with value m * 2^e, each operation is rounded to 53  *)
(* significant bits, and round(x, 2) rounds the double it is given, not    *)
(* the decimal number the double stands for.  Every value rounded to two   *)
(* decimals (score, money) is held as an integer number of hundredths.     *)
(*                                                                         *)
(* Strings.  str.lower, str.title, str.replace and str.rsplit are computed *)
(* character by character on ASCII strings.                                *)
(***************************************************************************)
EXTENDS Integers, Sequences, FiniteSets, TLC

VARIABLES
    cost_data,            \* the pricing catalog file load_cost_data() reads
    damages,              \* detection_result['damages']
    severity_assessment,  \* result of assess_severity, once it has run
    target_currency,      \* currency code handed to estimate_costs
    cost_estimate,        \* result of estimate_costs, once it has run
    pc,                   \* position in the analysis pipeline
    detection_result,     \* what detect_damage returned for the request
    report,               \* result of generate_report, once it has run
    calls,                \* functions the handler has invoked, in order
    scans,                \* documents of the scans collection, in insertion order
    clock,                \* the last reading of datetime.now(), in whole seconds
    threads               \* the locals of each request thread of the handlers

vars == <<cost_data, damages, severity_assessment, target_currency, cost_estimate, pc,
          detection_result, report, calls, scans, clock, threads>>

(***************************************************************************)
(* Bounds                                                                  *)
(***************************************************************************)
\* longest damage list priced by the cost pipeline
MaxDamages == 2
\* longest damage list aggregated in the severity-only specification
MaxSevDamages == 23
\* longest line-item list handed to estimate_repair_time on its own
MaxItems == 3

(***************************************************************************)
(* Python helpers                                                          *)
(***************************************************************************)
\* Python's None (for target_currency)
PyNone == "None"

\* placeholder for a result that has not been computed yet
NoResult == [unset |-> TRUE]

\* dict.get(key, default)
Get(d, key, default) == IF key \in DOMAIN d THEN d[key] ELSE default

(***************************************************************************)
(* Python strings (str.lower, str.title, str.replace, str.rsplit, the `in` *)
(* operator), one character at a time                                      *)
(***************************************************************************)
LowerCase == "abcdefghijklmnopqrstuvwxyz"

UpperCase == "ABCDEFGHIJKLMNOPQRSTUVWXYZ"

\* str.find + 1: the position of the first c in s, 0 when s has none
Find(s, c) ==
    IF \E i \in 1..Len(s) : SubSeq(s, i, i) = c
    THEN CHOOSE i \in 1..Len(s) :
            SubSeq(s, i, i) = c /\ \A j \in 1..(i - 1) : SubSeq(s, j, j) /= c
    ELSE 0

\* str.rfind + 1: the position of the last c in s, 0 when s has none
RFind(s, c) ==
    IF \E i \in 1..Len(s) : SubSeq(s, i, i) = c
    THEN CHOOSE i \in 1..Len(s) :
            SubSeq(s, i, i) = c /\ \A j \in (i + 1)..Len(s) : SubSeq(s, j, j) /= c
    ELSE 0

CharLower(c) == LET i == Find(UpperCase, c) IN IF i = 0 THEN c ELSE SubSeq(LowerCase, i, i)

CharUpper(c) == LET i == Find(LowerCase, c) IN IF i = 0 THEN c ELSE SubSeq(UpperCase, i, i)

IsCased(c) == Find(LowerCase, c) > 0 \/ Find(UpperCase, c) > 0

\* str.lower()
RECURSIVE Lower(_)
Lower(s) == IF s = "" THEN "" ELSE CharLower(SubSeq(s, 1, 1)) \o Lower(SubSeq(s, 2, Len(s)))

\* str.replace(old, new) for a one-character old
RECURSIVE Replace(_, _, _)
Replace(s, old, new) ==
    IF s = ""
    THEN ""
    ELSE (IF SubSeq(s, 1, 1) = old THEN new ELSE SubSeq(s, 1, 1))
         \o Replace(SubSeq(s, 2, Len(s)), old, new)

\* str.title(): a cased character is upper-cased when the character before
\* it is not cased, and lower-cased otherwise
RECURSIVE TitleCase(_, _)
TitleCase(s, previous_is_cased) ==
    IF s = ""
    THEN ""
    ELSE LET c == SubSeq(s, 1, 1)
         IN (IF previous_is_cased THEN CharLower(c) ELSE CharUpper(c))
            \o TitleCase(SubSeq(s, 2, Len(s)), IsCased(c))

\* s.replace('_', ' ').title()
Title(s) == TitleCase(Replace(s, "_", " "), FALSE)

\* filename.rsplit('.', 1)[1], for a filename that has a dot
Extension(filename) == SubSeq(filename, RFind(filename, ".") + 1, Len(filename))

RECURSIVE Gcd(_, _)
Gcd(a, b) == IF b = 0 THEN a ELSE Gcd(b, a % b)

\* a number as the catalog file writes it: the decimal n/d in lowest terms
\* (n >= 0, d > 0)
Rat(n, d) == LET g == Gcd(n, d) IN IF g = 0 THEN [n |-> 0, d |-> 1] ELSE [n |-> n \div g, d |-> d \div g]

(***************************************************************************)
(* Python floats: non-negative doubles [m, e], value m * 2^e.  The         *)
(* significand m is a natural number held as limbs of LimbBits bits, least *)
(* significant first, without a leading zero limb; the limbs keep every    *)
(* intermediate product inside the integers the model checker computes on. *)
(***************************************************************************)
LimbBits == 14

LimbBase == 2 ^ LimbBits

\* significant bits of a double
Precision == 53

RECURSIVE SumSeq(_)
SumSeq(s) == IF s = <<>> THEN 0 ELSE Head(s) + SumSeq(Tail(s))

RECURSIVE Limbs(_)
Limbs(i) == IF i = 0 THEN <<>> ELSE <<i % LimbBase>> \o Limbs(i \div LimbBase)

RECURSIVE Trim(_)
Trim(a) == IF a /= <<>> /\ a[Len(a)] = 0 THEN Trim(SubSeq(a, 1, Len(a) - 1)) ELSE a

RECURSIVE BigToInt(_)
BigToInt(a) == IF a = <<>> THEN 0 ELSE Head(a) + LimbBase * BigToInt(Tail(a))

\* the number whose limbs i..n are c[i]..c[n] plus carry, any c[i] >= 0
RECURSIVE Carry(_, _, _, _)
Carry(c, i, n, carry) ==
    IF i > n
    THEN Limbs(carry)
    ELSE LET x == c[i] + carry
         IN <<x % LimbBase>> \o Carry(c, i + 1, n, x \div LimbBase)

BigAdd(a, b) ==
    Carry([i \in 1..(Len(a) + Len(b)) |->
              (IF i <= Len(a) THEN a[i] ELSE 0) + (IF i <= Len(b) THEN b[i] ELSE 0)],
          1, IF Len(a) < Len(b) THEN Len(b) ELSE Len(a), 0)

\* a * k for 0 < k < 2^17
BigMulSmall(a, k) == Carry([i \in 1..Len(a) |-> a[i] * k], 1, Len(a), 0)

\* limb i of a, 0 beyond its last limb
Limb(a, i) == IF i <= Len(a) THEN a[i] ELSE 0

\* a * b for a and b of at most four limbs: limb k of the product is the sum
\* of the a[i] * b[j] with i + j = k + 1, before carries
BigMul(a, b) ==
    LET a1 == Limb(a, 1)
        a2 == Limb(a, 2)
        a3 == Limb(a, 3)
        a4 == Limb(a, 4)
        b1 == Limb(b, 1)
        b2 == Limb(b, 2)
        b3 == Limb(b, 3)
        b4 == Limb(b, 4)
    IN Trim(Carry(<<a1 * b1,
                    a1 * b2 + a2 * b1,
                    a1 * b3 + a2 * b2 + a3 * b1,
                    a1 * b4 + a2 * b3 + a3 * b2 + a4 * b1,
                    a2 * b4 + a3 * b3 + a4 * b2,
                    a3 * b4 + a4 * b3,
                    a4 * b4>>, 1, 7, 0))

\* a * 2^k
BigShl(a, k) ==
    IF a = <<>> THEN <<>>
    ELSE [i \in 1..(k \div LimbBits) |-> 0] \o BigMulSmall(a, 2 ^ (k % LimbBits))

\* quotient and remainder of the i most significant limbs of a by a
\* divisor d < 2^17
RECURSIVE BigDivSmall(_, _, _)
BigDivSmall(a, d, i) ==
    IF i = 0
    THEN [q |-> <<>>, r |-> 0]
    ELSE LET hi == BigDivSmall(a, d, i - 1)
             x == hi.r * LimbBase + a[Len(a) - i + 1]
         IN [q |-> <<x \div d>> \o hi.q, r |-> x % d]

\* number of bits of a limb x > 0, by bisection
LimbBitLen(x) ==
    IF x < 128
    THEN (IF x < 8
          THEN (IF x < 2 THEN 1 ELSE IF x < 4 THEN 2 ELSE 3)
          ELSE (IF x < 32 THEN (IF x < 16 THEN 4 ELSE 5) ELSE IF x < 64 THEN 6 ELSE 7))
    ELSE (IF x < 2048
          THEN (IF x < 512 THEN (IF x < 256 THEN 8 ELSE 9) ELSE IF x < 1024 THEN 10 ELSE 11)
          ELSE (IF x < 8192 THEN (IF x < 4096 THEN 12 ELSE 13) ELSE 14))

\* number of bits of a
BitLen(a) == IF a = <<>> THEN 0 ELSE LimbBits * (Len(a) - 1) + LimbBitLen(a[Len(a)])

\* bit i of a, counted from 0
Bit(a, i) ==
    IF i \div LimbBits >= Len(a) THEN 0
    ELSE (a[i \div LimbBits + 1] \div 2 ^ (i % LimbBits)) % 2

\* some bit of a below bit i is set
LowBits(a, i) ==
    \/ \E j \in 1..Len(a) : j <= i \div LimbBits /\ a[j] /= 0
    \/ i \div LimbBits < Len(a) /\ a[i \div LimbBits + 1] % 2 ^ (i % LimbBits) /= 0

\* floor(a / 2^k)
BigShr(a, k) ==
    LET w == k \div LimbBits
        r == k % LimbBits
        b == IF w >= Len(a) THEN <<>> ELSE SubSeq(a, w + 1, Len(a))
        low == 2 ^ r
        high == 2 ^ (LimbBits - r)
    IN Trim(Carry([i \in 1..Len(b) |-> b[i] \div low + (Limb(b, i + 1) % low) * high],
                  1, Len(b), 0))

\* a / 2^k rounded to the nearest integer, ties to the even one
BigShrRound(a, k) ==
    IF k = 0 THEN a
    ELSE LET q == BigShr(a, k)
             up == Bit(a, k - 1) = 1 /\ (LowBits(a, k - 1) \/ Bit(q, 0) = 1)
         IN IF up THEN BigAdd(q, <<1>>) ELSE q

BigLe(a, b) ==
    \/ Len(a) < Len(b)
    \/ /\ Len(a) = Len(b)
       /\ \A i \in 1..Len(a) : a[i] > b[i] => \E j \in (i + 1)..Len(a) : a[j] < b[j]

\* the double nearest to n * 2^e
FRound(n, e) ==
    LET excess == BitLen(n) - Precision
    IN IF excess <= 0 THEN [m |-> n, e |-> e]
       ELSE [m |-> BigShrRound(n, excess), e |-> e + excess]

\* float(i)
FromInt(i) == [m |-> Limbs(i), e |-> 0]

\* a + b
FAdd(a, b) ==
    IF a.m = <<>> THEN b
    ELSE IF b.m = <<>> THEN a
    ELSE LET e == IF a.e < b.e THEN a.e ELSE b.e
         IN FRound(BigAdd(BigShl(a.m, a.e - e), BigShl(b.m, b.e - e)), e)

\* a * b
FMul(a, b) == FRound(BigMul(a.m, b.m), a.e + b.e)

\* n / d for integers n >= 0 and 0 < d < 2^17: the quotient to 72 binary
\* places, its last bit set when the division leaves a remainder
FDiv(n, d) ==
    IF n = 0 THEN FromInt(0)
    ELSE LET x == BigShl(Limbs(n), 72)
             qr == BigDivSmall(x, d, Len(x))
             q == Trim(qr.q)
             sticky == IF qr.r /= 0 /\ q[1] % 2 = 0 THEN [q EXCEPT ![1] = @ + 1] ELSE q
         IN FRound(sticky, -72)

\* the float a decimal number of the catalog file or of the code is read as
Float(x) == FDiv(x.n, x.d)

\* a <= b
FLe(a, b) ==
    LET e == IF a.e < b.e THEN a.e ELSE b.e
    IN BigLe(BigShl(a.m, a.e - e), BigShl(b.m, b.e - e))

\* mutant: ties go up
RoundHalfUp(n, d) == (2 * n + d) \div (2 * d)

\* round(n/d) for integers: nearest integer, ties to the even one
RoundHalfEven(n, d) ==
    LET q == n \div d
        r == n % d
    IN IF 2 * r < d THEN q
       ELSE IF 2 * r > d THEN q + 1
       ELSE IF q % 2 = 0 THEN q ELSE q + 1

\* round(x, 2) for a double x, as a number of hundredths: the double times
\* 100, exactly, rounded to the nearest integer, ties to the even one
Round2(x) ==
    LET n == BigMulSmall(x.m, 100)
    IN BigToInt(IF x.e >= 0 THEN BigShl(n, x.e) ELSE BigShrRound(n, -x.e))

(***************************************************************************)
(* utils/severity.py                                                       *)
(***************************************************************************)
SEVERITY_LEVELS ==
    [minor    |-> [label |-> "Minor", description |-> "Cosmetic damage, no structural impact",
                   color |-> "#22c55e", icon |-> "green",
                   action |-> "Repair recommended within 30 days"],
     moderate |-> [label |-> "Moderate", description |-> "Significant damage requiring professional repair",
                   color |-> "#f59e0b", icon |-> "yellow",
                   action |-> "Repair recommended within 7 days"],
     severe   |-> [label |-> "Severe", description |-> "Major structural damage, may affect safety",
                   color |-> "#ef4444", icon |-> "red",
                   action |-> "Immediate professional assessment required"]]

severity_scores == [minor |-> 1, moderate |-> 2, severe |-> 3]

\* one entry of the breakdown list
BreakdownEntry(damage) ==
    LET severity == Get(damage, "severity", "minor")
        severity_info == Get(SEVERITY_LEVELS, severity, SEVERITY_LEVELS["minor"])
    IN [part |-> Get(damage, "part", "unknown"),
        damage_type |-> Get(damage, "damage_type", "unknown"),
        severity |-> severity,
        severity_label |-> severity_info["label"],
        color |-> severity_info["color"],
        icon |-> severity_info["icon"],
        confidence |-> Get(damage, "confidence", 0),
        description |-> Get(damage, "description", "")]

\* total_score after the loop
TotalScore(ds) ==
    SumSeq([i \in 1..Len(ds) |-> Get(severity_scores, Get(ds[i], "severity", "minor"), 1)])

\* mutant: the band limits compared with < instead of <=
ThresholdOverallStrict(avg_score) ==
    IF ~FLe(Float(Rat(13, 10)), avg_score) THEN "minor"
    ELSE IF ~FLe(Float(Rat(23, 10)), avg_score) THEN "moderate"
    ELSE "severe"

\* the threshold bands on the average
ThresholdOverall(avg_score) ==
    IF FLe(avg_score, Float(Rat(13, 10))) THEN "minor"
    ELSE IF FLe(avg_score, Float(Rat(23, 10))) THEN "moderate"
    ELSE "severe"

\* mutant: a severe damage escalates the verdict all the way to severe
EscalateToSevere(ds, overall) ==
    IF \E i \in 1..Len(ds) : Get(ds[i], "severity", PyNone) = "severe"
    THEN "severe"
    ELSE overall

\* upgrade if any single damage is severe
Escalate(ds, overall) ==
    IF (\E i \in 1..Len(ds) : Get(ds[i], "severity", PyNone) = "severe") /\ overall = "minor"
    THEN "moderate"
    ELSE overall

assess_severity(ds) ==
    IF ds = <<>>
    THEN [overall |-> "none", label |-> "No Damage",
          description |-> "No visible damage detected",
          color |-> "#22c55e", score |-> 0, breakdown |-> <<>>]
    ELSE LET avg_score == FDiv(TotalScore(ds), Len(ds))
             overall == Escalate(ds, ThresholdOverall(avg_score))
             severity_info == SEVERITY_LEVELS[overall]
         IN [overall |-> overall,
             label |-> severity_info["label"],
             description |-> severity_info["description"],
             color |-> severity_info["color"],
             icon |-> severity_info["icon"],
             action |-> severity_info["action"],
             score |-> Round2(avg_score),
             damage_count |-> Len(ds),
             breakdown |-> [i \in 1..Len(ds) |-> BreakdownEntry(ds[i])]]

(***************************************************************************)
(* The pricing catalog (database/cost_data.json, read by load_cost_data)   *)
(* is an input of estimate_costs.  Two catalogs that satisfy the catalog   *)
(* invariants (min <= max, multipliers in [0,1], base currency INR with    *)
(* rate 1) are used; multipliers, exchange rates and tax rates are held as *)
(* the decimal numbers the file writes, and json.load reads each as the    *)
(* nearest double.                                                         *)
(***************************************************************************)
CatalogA ==
    [parts |->
        [front_bumper |-> [name |-> "Front Bumper",
                           repair_cost |-> [min |-> 3500, max |-> 9000],
                           replacement_cost |-> [min |-> 12000, max |-> 30000],
                           labor_hours |-> [repair |-> 6, replacement |-> 9]],
         windshield   |-> [name |-> "Windshield",
                           repair_cost |-> [min |-> 1498, max |-> 4998],
                           replacement_cost |-> [min |-> 7999, max |-> 19999],
                           labor_hours |-> [repair |-> 3, replacement |-> 6]]],
     labor_rate_per_hour |-> 650,
     paint_cost_per_panel |-> [min |-> 3000, max |-> 8001],
     severity_multipliers |-> [minor |-> Rat(3, 10), moderate |-> Rat(6, 10), severe |-> Rat(1, 1)],
     exchange_rates |-> [INR |-> [rate |-> Rat(1, 1), symbol |-> "Rs"],
                         USD |-> [rate |-> Rat(12, 1000), symbol |-> "$"],
                         JPY |-> [rate |-> Rat(18, 10), symbol |-> "Y"]],
     tax_rate |-> Rat(18, 100)]

CatalogB ==
    [parts |->
        [front_bumper |-> [name |-> "Bumper (front)",
                           repair_cost |-> [min |-> 4000, max |-> 4000],
                           replacement_cost |-> [min |-> 10000, max |-> 25001],
                           labor_hours |-> [repair |-> 1, replacement |-> 4]],
         windshield   |-> [name |-> "Windscreen",
                           repair_cost |-> [min |-> 0, max |-> 2501],
                           replacement_cost |-> [min |-> 6000, max |-> 6001],
                           labor_hours |-> [repair |-> 0, replacement |-> 5]]],
     labor_rate_per_hour |-> 500,
     paint_cost_per_panel |-> [min |-> 0, max |-> 2500],
     severity_multipliers |-> [minor |-> Rat(0, 1), moderate |-> Rat(1, 2), severe |-> Rat(1, 1)],
     exchange_rates |-> [INR |-> [rate |-> Rat(1, 1), symbol |-> "INR"]],
     tax_rate |-> Rat(5, 100)]

Catalogs == {CatalogA, CatalogB}

\* json.load on the catalog file: whole numbers are read as integers,
\* numbers with a decimal point as floats
json_load(file) ==
    [parts |-> file["parts"],
     labor_rate_per_hour |-> file["labor_rate_per_hour"],
     paint_cost_per_panel |-> file["paint_cost_per_panel"],
     severity_multipliers |->
        [k \in DOMAIN file["severity_multipliers"] |-> Float(file["severity_multipliers"][k])],
     exchange_rates |->
        [k \in DOMAIN file["exchange_rates"] |->
            [rate |-> Float(file["exchange_rates"][k]["rate"]),
             symbol |-> file["exchange_rates"][k]["symbol"]]],
     tax_rate |-> Float(file["tax_rate"])]

load_cost_data == json_load(cost_data)

(***************************************************************************)
(* utils/cost_estimator.py                                                 *)
(***************************************************************************)
\* mutant: the fallback reports the requested code instead of the base code
ResolveCurrencyKeepCode(cd, cur) ==
    LET exchange_rates == Get(cd, "exchange_rates", <<>>)
    IN IF cur \notin {PyNone, ""} /\ cur \in DOMAIN exchange_rates
       THEN [rate |-> exchange_rates[cur]["rate"],
             symbol |-> exchange_rates[cur]["symbol"],
             currency_code |-> cur]
       ELSE [rate |-> FromInt(1),
             symbol |-> Get(Get(exchange_rates, "INR", <<>>), "symbol", "Rupee"),
             currency_code |-> cur]

\* currency configuration: rate, symbol and reported code
ResolveCurrency(cd, cur) ==
    LET exchange_rates == Get(cd, "exchange_rates", <<>>)
    IN IF cur \notin {PyNone, ""} /\ cur \in DOMAIN exchange_rates
       THEN [rate |-> exchange_rates[cur]["rate"],
             symbol |-> exchange_rates[cur]["symbol"],
             currency_code |-> cur]
       ELSE [rate |-> FromInt(1),
             symbol |-> Get(Get(exchange_rates, "INR", <<>>), "symbol", "Rupee"),
             currency_code |-> "INR"]

\* default costs for unknown parts
DefaultPartInfo(part_key) ==
    [name |-> Title(part_key),
     repair_cost |-> [min |-> 4500, max |-> 12000],
     replacement_cost |-> [min |-> 15000, max |-> 45000],
     labor_hours |-> [repair |-> 2, replacement |-> 3]]

PartInfo(cd, part_key) ==
    IF part_key \in DOMAIN cd["parts"] THEN cd["parts"][part_key] ELSE DefaultPartInfo(part_key)

\* mutant: an unrecognised severity is priced at the top of the range
MultiplierDefaultOne(cd, severity) == Get(cd["severity_multipliers"], severity, FromInt(1))

Multiplier(cd, severity) == Get(cd["severity_multipliers"], severity, Float(Rat(1, 2)))

\* mutant: structural damage does not force a replacement
NeedsReplacementNoStructural(severity, damage_type) ==
    severity = "severe" \/ damage_type \in {"shatter"}

\* determine if repair or replacement
NeedsReplacement(severity, damage_type) ==
    severity = "severe" \/ damage_type \in {"shatter", "structural"}

\* mutant: paint needs both conditions instead of either
NeedsPaintBoth(damage_type, part_key) ==
    damage_type \notin {"shatter", "crack"}
    /\ part_key \notin {"headlight", "taillight", "windshield", "side_mirror"}

\* only add paint for visible damage
NeedsPaint(damage_type, part_key) ==
    damage_type \notin {"shatter", "crack"}
    \/ part_key \notin {"headlight", "taillight", "windshield", "side_mirror"}

\* mutant: min + max * multiplier
InterpolateNoWidth(range, multiplier) ==
    FAdd(FromInt(range["min"]), FMul(FromInt(range["max"]), multiplier))

\* min + (max - min) * multiplier
Interpolate(range, multiplier) ==
    FAdd(FromInt(range["min"]), FMul(FromInt(range["max"] - range["min"]), multiplier))

\* the subtotal of a line item: the unrounded sum, converted, then rounded
ItemSubtotal(part_cost_base, labor_cost_base, paint_added, rate) ==
    Round2(FMul(FAdd(FAdd(part_cost_base, labor_cost_base), paint_added), rate))

\* one iteration of the pricing loop: the line item and what it adds to the
\* base-currency totals
PriceDamage(cd, damage, rate) ==
    LET part_key == Get(damage, "part", "")
        severity == Get(damage, "severity", "minor")
        damage_type == Get(damage, "damage_type", "scratch")
        part_info == PartInfo(cd, part_key)
        multiplier == Multiplier(cd, severity)
        needs_replacement == NeedsReplacement(severity, damage_type)
        cost_range == IF needs_replacement THEN part_info["replacement_cost"] ELSE part_info["repair_cost"]
        labor_hours == IF needs_replacement THEN part_info["labor_hours"]["replacement"]
                       ELSE part_info["labor_hours"]["repair"]
        action == IF needs_replacement THEN "Replace" ELSE "Repair"
        part_cost_base == Interpolate(cost_range, multiplier)
        labor_cost_base == FromInt(labor_hours * cd["labor_rate_per_hour"])
        panel_paint_cost_base == Interpolate(cd["paint_cost_per_panel"], multiplier)
        needs_paint == NeedsPaint(damage_type, part_key)
        paint_added == IF needs_paint THEN panel_paint_cost_base ELSE FromInt(0)
    IN [item |-> [part_name |-> part_info["name"],
                  part_key |-> part_key,
                  action |-> action,
                  damage_type |-> Title(damage_type),
                  severity |-> severity,
                  part_cost |-> Round2(FMul(part_cost_base, rate)),
                  labor_cost |-> Round2(FMul(labor_cost_base, rate)),
                  labor_hours |-> labor_hours,
                  paint_cost |-> IF needs_paint THEN Round2(FMul(panel_paint_cost_base, rate)) ELSE 0,
                  subtotal |-> ItemSubtotal(part_cost_base, labor_cost_base, paint_added, rate)],
        part_cost_base |-> part_cost_base,
        labor_cost_base |-> labor_cost_base,
        paint_added |-> paint_added]

\* a running total: 0, then += for each element in order
RECURSIVE FSum(_)
FSum(s) == IF s = <<>> THEN FromInt(0) ELSE FAdd(FSum(SubSeq(s, 1, Len(s) - 1)), s[Len(s)])

\* GST in India
tax_rate == Float(Rat(18, 100))

\* mutant: a verdict of none (no damage) is pre-approved like minor
get_recommendation_none_preapproved(sa, total_cost, symbol) ==
    LET overall == Get(sa, "overall", "minor")
    IN IF overall \in {"minor", "none"}
       THEN [status |-> "PRE-APPROVED", status_color |-> "#22c55e",
             message |-> [symbol |-> symbol, amount |-> Round2(total_cost),
                          text |-> "is pre-approved for immediate processing."],
             next_steps |-> <<"Choose a certified repair shop from our network",
                              "Schedule your repair appointment",
                              "Repairs will begin upon vehicle drop-off">>]
       ELSE IF overall = "moderate"
       THEN [status |-> "PRE-APPROVED", status_color |-> "#22c55e",
             message |-> [symbol |-> symbol, amount |-> Round2(total_cost),
                          text |-> "is pre-approved. A brief review may be conducted."],
             next_steps |-> <<"Select a certified repair facility",
                              "An adjuster may contact you within 24 hours",
                              "Repairs can proceed after brief verification">>]
       ELSE [status |-> "REVIEW REQUIRED", status_color |-> "#f59e0b",
             message |-> [symbol |-> symbol, amount |-> Round2(total_cost),
                          text |-> "requires adjuster review due to severity."],
             next_steps |-> <<"An adjuster will be assigned within 2 hours",
                              "In-person inspection may be required",
                              "Estimated review completion: 24-48 hours">>]

\* mutant: a moderate verdict is sent to review
get_recommendation_review_moderate(sa, total_cost, symbol) ==
    LET overall == Get(sa, "overall", "minor")
    IN IF overall = "minor"
       THEN [status |-> "PRE-APPROVED", status_color |-> "#22c55e",
             message |-> [symbol |-> symbol, amount |-> Round2(total_cost),
                          text |-> "is pre-approved for immediate processing."],
             next_steps |-> <<"Choose a certified repair shop from our network",
                              "Schedule your repair appointment",
                              "Repairs will begin upon vehicle drop-off">>]
       ELSE [status |-> "REVIEW REQUIRED", status_color |-> "#f59e0b",
             message |-> [symbol |-> symbol, amount |-> Round2(total_cost),
                          text |-> "requires adjuster review due to severity."],
             next_steps |-> <<"An adjuster will be assigned within 2 hours",
                              "In-person inspection may be required",
                              "Estimated review completion: 24-48 hours">>]

get_recommendation(sa, total_cost, symbol) ==
    LET overall == Get(sa, "overall", "minor")
    IN IF overall = "minor"
       THEN [status |-> "PRE-APPROVED", status_color |-> "#22c55e",
             message |-> [symbol |-> symbol, amount |-> Round2(total_cost),
                          text |-> "is pre-approved for immediate processing."],
             next_steps |-> <<"Choose a certified repair shop from our network",
                              "Schedule your repair appointment",
                              "Repairs will begin upon vehicle drop-off">>]
       ELSE IF overall = "moderate"
       THEN [status |-> "PRE-APPROVED", status_color |-> "#22c55e",
             message |-> [symbol |-> symbol, amount |-> Round2(total_cost),
                          text |-> "is pre-approved. A brief review may be conducted."],
             next_steps |-> <<"Select a certified repair facility",
                              "An adjuster may contact you within 24 hours",
                              "Repairs can proceed after brief verification">>]
       ELSE [status |-> "REVIEW REQUIRED", status_color |-> "#f59e0b",
             message |-> [symbol |-> symbol, amount |-> Round2(total_cost),
                          text |-> "requires adjuster review due to severity."],
             next_steps |-> <<"An adjuster will be assigned within 2 hours",
                              "In-person inspection may be required",
                              "Estimated review completion: 24-48 hours">>]

\* mutant: no floor of one day
estimate_repair_time_no_floor(line_items) ==
    LET total_hours == SumSeq([i \in 1..Len(line_items) |-> line_items[i]["labor_hours"]])
        days == RoundHalfEven(total_hours, 6)
    IN IF \E i \in 1..Len(line_items) : line_items[i]["action"] = "Replace"
       THEN days + 2
       ELSE days

\* mutant: total_hours / 6 truncated instead of rounded
estimate_repair_time_floor(line_items) ==
    LET total_hours == SumSeq([i \in 1..Len(line_items) |-> line_items[i]["labor_hours"]])
        rounded == total_hours \div 6
        days == IF rounded > 1 THEN rounded ELSE 1
    IN IF \E i \in 1..Len(line_items) : line_items[i]["action"] = "Replace"
       THEN days + 2
       ELSE days

\* estimate total repair time in business days
estimate_repair_time(line_items) ==
    LET total_hours == SumSeq([i \in 1..Len(line_items) |-> line_items[i]["labor_hours"]])
        rounded == RoundHalfEven(total_hours, 6)
        days == IF rounded > 1 THEN rounded ELSE 1
    IN IF \E i \in 1..Len(line_items) : line_items[i]["action"] = "Replace"
       THEN days + 2
       ELSE days

\* mutant: the total is left in the base currency
TotalTargetUnconverted(total_base, rate) == total_base

\* total_base * rate
TotalTarget(total_base, rate) == FMul(total_base, rate)

\* one iteration of the pricing loop: the line item appended, the three
\* base-currency totals added to
PriceNext(before, priced) ==
    [line_items |-> Append(before["line_items"], priced["item"]),
     total_parts_cost |-> FAdd(before["total_parts_cost"], priced["part_cost_base"]),
     total_labor_cost |-> FAdd(before["total_labor_cost"], priced["labor_cost_base"]),
     total_paint_cost |-> FAdd(before["total_paint_cost"], priced["paint_added"])]

\* the pricing loop after its first i iterations: the line items and the
\* base-currency running totals
RECURSIVE PriceLoop(_, _, _, _)
PriceLoop(cd, ds, rate, i) ==
    IF i = 0
    THEN [line_items |-> <<>>,
          total_parts_cost |-> FromInt(0),
          total_labor_cost |-> FromInt(0),
          total_paint_cost |-> FromInt(0)]
    ELSE PriceNext(PriceLoop(cd, ds, rate, i - 1), PriceDamage(cd, ds[i], rate))

\* subtotal_base, from the totals of the pricing loop
SubtotalBase(loop) ==
    FAdd(FAdd(loop["total_parts_cost"], loop["total_labor_cost"]), loop["total_paint_cost"])

\* tax_base
TaxBase(loop) == FMul(SubtotalBase(loop), tax_rate)

\* total_base
TotalBase(loop) == FAdd(SubtotalBase(loop), TaxBase(loop))

\* the dictionary estimate_costs returns, from the currency configuration
\* and what the pricing loop left
CostEstimate(sa, currency, loop) ==
    [line_items |-> loop["line_items"],
     summary |-> [total_parts |-> Round2(FMul(loop["total_parts_cost"], currency["rate"])),
                  total_labor |-> Round2(FMul(loop["total_labor_cost"], currency["rate"])),
                  total_paint |-> Round2(FMul(loop["total_paint_cost"], currency["rate"])),
                  subtotal |-> Round2(FMul(SubtotalBase(loop), currency["rate"])),
                  tax_rate |-> tax_rate,
                  tax |-> Round2(FMul(TaxBase(loop), currency["rate"])),
                  total |-> Round2(TotalTarget(TotalBase(loop), currency["rate"])),
                  currency |-> currency["currency_code"],
                  symbol |-> currency["symbol"]],
     recommendation |-> get_recommendation(sa, TotalTarget(TotalBase(loop), currency["rate"]),
                                           currency["symbol"]),
     estimated_repair_days |-> estimate_repair_time(loop["line_items"])]

\* estimate_costs once the currency configuration is resolved
EstimateIn(ds, sa, cd, currency) ==
    CostEstimate(sa, currency, PriceLoop(cd, ds, currency["rate"], Len(ds)))

estimate_costs(ds, sa, cur, cd) == EstimateIn(ds, sa, cd, ResolveCurrency(cd, cur))

(***************************************************************************)
(* utils/report_generator.py.  A cost that holds None instead of a number  *)
(* is recorded by listing its key in the item's none_fields; a line item   *)
(* estimate_costs built has no such key.                                   *)
(***************************************************************************)
\* Python truthiness of a part key
Truthy(key) == key \notin {PyNone, ""}

\* keys of a line item whose value is not a number
NoneFields(item) == Get(item, "none_fields", {})

\* the costs aggregated per part, and the keys they are attached under
AggregatedFields == <<"part_cost", "labor_cost", "paint_cost", "subtotal">>

AttachedFields == <<"part_cost", "labor_cost", "paint_cost", "total_cost">>

\* the float a reported amount is: a number of hundredths divided by 100
Amount(hundredths) == FDiv(hundredths, 100)

\* the loop over cost_estimate['line_items']: acc.by_part is
\* line_items_by_part, acc.failed says that a += raised
RECURSIVE AggregateLineItems(_, _, _)
AggregateLineItems(line_items, i, acc) ==
    IF acc["failed"] \/ i > Len(line_items)
    THEN acc
    ELSE LET item == line_items[i]
             key == Get(item, "part_key", PyNone)
         IN IF ~Truthy(key)
            THEN AggregateLineItems(line_items, i + 1, acc)
            ELSE IF key \in DOMAIN acc["by_part"]
            THEN LET existing == acc["by_part"][key]
                 IN IF existing["none_fields"] /= {} \/ NoneFields(item) /= {}
                    THEN [acc EXCEPT !["failed"] = TRUE]
                    ELSE AggregateLineItems(line_items, i + 1,
                            [acc EXCEPT !["by_part"] =
                                (key :> [part_cost |-> FAdd(existing["part_cost"], Amount(Get(item, "part_cost", 0))),
                                         labor_cost |-> FAdd(existing["labor_cost"], Amount(Get(item, "labor_cost", 0))),
                                         paint_cost |-> FAdd(existing["paint_cost"], Amount(Get(item, "paint_cost", 0))),
                                         subtotal |-> FAdd(existing["subtotal"], Amount(Get(item, "subtotal", 0))),
                                         none_fields |-> {}]) @@ acc["by_part"]])
            ELSE AggregateLineItems(line_items, i + 1,
                    [acc EXCEPT !["by_part"] =
                        (key :> [part_cost |-> Amount(Get(item, "part_cost", 0)),
                                 labor_cost |-> Amount(Get(item, "labor_cost", 0)),
                                 paint_cost |-> Amount(Get(item, "paint_cost", 0)),
                                 subtotal |-> Amount(Get(item, "subtotal", 0)),
                                 none_fields |-> NoneFields(item)]) @@ acc["by_part"]])

\* the loop over the report's damages: each entry whose part has aggregated
\* costs is given the four rounded figures, in the order of AttachedFields;
\* the loop ends at the first figure that is not a number
RECURSIVE AttachCosts(_, _, _)
AttachCosts(entries, i, by_part) ==
    IF i > Len(entries)
    THEN entries
    ELSE LET dmg == entries[i]
             part_key == Get(dmg, "part", PyNone)
         IN IF ~Truthy(part_key) \/ part_key \notin DOMAIN by_part
            THEN AttachCosts(entries, i + 1, by_part)
            ELSE LET costs == by_part[part_key]
                     bad == {k \in 1..4 : AggregatedFields[k] \in costs["none_fields"]}
                     stop == IF bad = {} THEN 5 ELSE CHOOSE k \in bad : \A j \in bad : k <= j
                     attached == [k \in 1..(stop - 1) |-> Round2(costs[AggregatedFields[k]])]
                     enriched == [f \in {AttachedFields[k] : k \in 1..(stop - 1)} |->
                                    attached[CHOOSE k \in 1..4 : AttachedFields[k] = f]] @@ dmg
                 IN IF bad = {}
                    THEN AttachCosts([entries EXCEPT ![i] = enriched], i + 1, by_part)
                    ELSE [entries EXCEPT ![i] = enriched]

\* the report's damages after the enrichment block: the breakdown list of
\* the verdict itself, whose entries the block changes in place
EnrichedDamages(sa, ce) ==
    LET breakdown == Get(sa, "breakdown", <<>>)
        acc == AggregateLineItems(Get(ce, "line_items", <<>>), 1,
                                  [failed |-> FALSE, by_part |-> <<>>])
    IN IF acc["failed"] THEN breakdown ELSE AttachCosts(breakdown, 1, acc["by_part"])

\* report_id: the prefix and a clock reading, to the second
ReportId(now) == <<"VCR", now>>

\* now and later are the two readings of datetime.now(), in this order
generate_report(dr, sa, ce, image_filename, now, later) ==
    [report_id |-> ReportId(now),
     generated_at |-> later,
     image_file |-> image_filename,
     vehicle_info |-> [type |-> Get(dr, "vehicle_type", "Unknown"),
                       color |-> Get(dr, "vehicle_color", "Unknown"),
                       drivable |-> Get(dr, "drivable", TRUE)],
     damage_assessment |-> [summary |-> Get(dr, "summary", ""),
                            overall_severity |-> Get(sa, "label", "Unknown"),
                            severity_color |-> Get(sa, "color", "#888"),
                            severity_icon |-> Get(sa, "icon", ""),
                            severity_action |-> Get(sa, "action", ""),
                            damage_count |-> Get(sa, "damage_count", 0),
                            damages |-> EnrichedDamages(sa, ce)],
     cost_estimate |-> ce["summary"],
     line_items |-> ce["line_items"],
     recommendation |-> ce["recommendation"],
     estimated_repair_days |-> ce["estimated_repair_days"],
     disclaimer |-> "This is an AI-generated pre-approval estimate."]

(***************************************************************************)
(* database/db.py                                                          *)
(***************************************************************************)
\* the document save_scan inserts (its data and created_at fields left out);
\* generate_report always sets report_id, so the uuid fallback is not taken
save_scan(user_id, scan_data) ==
    LET assessment == Get(scan_data, "damage_assessment", <<>>)
        overall_severity == Lower(Get(assessment, "overall_severity", "minor"))
    IN [user_id |-> user_id,
        scan_id |-> scan_data["report_id"],
        status |-> IF overall_severity = "severe" THEN "Under Review" ELSE "Completed"]

(***************************************************************************)
(* Inputs                                                                  *)
(***************************************************************************)
\* a damage record as the detector builds it
Damage(part, damage_type, severity) ==
    [part |-> part, damage_type |-> damage_type, severity |-> severity,
     confidence |-> 90, description |-> "d"]

\* damages on a paintable catalog part, a non-paintable catalog part and a
\* part the catalog does not list: every pair (damage_type, severity),
\* (part, damage_type) and (part, severity) occurs
FullDamages ==
    {Damage("front_bumper", "dent", "minor"),
     Damage("windshield", "dent", "moderate"),
     Damage("roof_rack", "dent", "severe"),
     Damage("windshield", "crack", "minor"),
     Damage("roof_rack", "crack", "moderate"),
     Damage("front_bumper", "crack", "severe"),
     Damage("roof_rack", "shatter", "minor"),
     Damage("front_bumper", "shatter", "moderate"),
     Damage("windshield", "shatter", "severe"),
     Damage("front_bumper", "structural", "minor"),
     Damage("windshield", "structural", "moderate"),
     Damage("roof_rack", "structural", "severe")}

\* damages with an unknown severity or with missing keys
PartialDamages ==
    {[part |-> "front_bumper", damage_type |-> "dent", severity |-> "totaled"],
     [part |-> "windshield"],
     [damage_type |-> "crack", severity |-> "severe"]}

\* damages on the other parts that take no paint for a crack or a shatter
\* (the catalogs do not list them), with and without such a damage type
LampDamages ==
    {Damage("headlight", "crack", "severe"),
     Damage("taillight", "shatter", "minor"),
     Damage("side_mirror", "crack", "moderate"),
     Damage("side_mirror", "dent", "minor")}

DamageInputs == FullDamages \cup PartialDamages \cup LampDamages

\* currency codes a request may carry: None, empty, catalog keys, a non-key
CurrencyInputs == {PyNone, "", "INR", "USD", "JPY", "GBP"}

\* severities of the severity-only specification, in the order lists are built
SeverityInputs == <<"minor", "moderate", "severe", "totaled">>

SeverityRank(s) == CHOOSE i \in 1..Len(SeverityInputs) : SeverityInputs[i] = s

SeverityOnlyDamage(s) == Damage("front_bumper", "dent", s)

(***************************************************************************)
(* The analysis pipeline (app.py analyze, main.py analyze_image):          *)
(* detect_damage, assess_severity, estimate_costs                          *)
(***************************************************************************)
\* most requests in progress at a time
MaxThreads == 2

Threads == 1..MaxThreads

\* the locals of a request thread that has not received a request
IdleThread ==
    [pc |-> "idle", request |-> NoResult, filename |-> PyNone,
     detection_result |-> NoResult, severity_assessment |-> NoResult,
     cost_estimate |-> NoResult, report_id_read |-> 0, report |-> NoResult,
     insert_result |-> NoResult, calls |-> <<>>, response |-> NoResult]

Init ==
    /\ cost_data \in Catalogs
    /\ damages = <<>>
    /\ severity_assessment = NoResult
    /\ target_currency = PyNone
    /\ cost_estimate = NoResult
    /\ pc = "detect"
    /\ detection_result = [vehicle_detected |-> TRUE]
    /\ report = NoResult
    /\ calls = <<"detect_damage">>
    /\ scans = <<>>
    /\ clock = 0
    /\ threads = [t \in Threads |-> IdleThread]

\* the detector reports one more damage
DetectDamage(d) ==
    /\ pc = "detect"
    /\ Len(damages) < MaxDamages
    /\ damages' = Append(damages, d)
    /\ UNCHANGED <<cost_data, severity_assessment, target_currency, cost_estimate, pc,
                   detection_result, report, calls, scans, clock, threads>>

\* mutant: a result without the vehicle_detected key counts as a vehicle
VehicleDetectedDefaultTrue(dr) == Get(dr, "vehicle_detected", TRUE)

\* the gate both handlers apply to the detection result
VehicleDetected(dr) == Get(dr, "vehicle_detected", FALSE)

AssessSeverity ==
    /\ pc = "detect"
    /\ VehicleDetected(detection_result)
    /\ severity_assessment' = assess_severity(damages)
    /\ calls' = Append(calls, "assess_severity")
    /\ pc' = "assessed"
    /\ UNCHANGED <<cost_data, damages, target_currency, cost_estimate,
                   detection_result, report, scans, clock, threads>>

EstimateCosts(cur) ==
    /\ pc = "assessed"
    /\ target_currency' = cur
    /\ cost_estimate' = estimate_costs(damages, severity_assessment, cur, load_cost_data)
    /\ calls' = Append(calls, "estimate_costs")
    /\ pc' = "estimated"
    /\ UNCHANGED <<cost_data, damages, severity_assessment,
                   detection_result, report, scans, clock, threads>>

Next ==
    \/ \E d \in DamageInputs : DetectDamage(d)
    \/ AssessSeverity
    \/ \E cur \in CurrencyInputs : EstimateCosts(cur)

Spec == Init /\ [][Next]_vars

(***************************************************************************)
(* Severity-only specification: assess_severity over long damage lists.    *)
(* The result does not depend on the order of the damages, so lists are    *)
(* built in the order of SeverityInputs.                                   *)
(***************************************************************************)
InitSeverity ==
    /\ cost_data = CatalogA
    /\ damages = <<>>
    /\ severity_assessment = NoResult
    /\ target_currency = PyNone
    /\ cost_estimate = NoResult
    /\ pc = "detect"
    /\ detection_result = [vehicle_detected |-> TRUE]
    /\ report = NoResult
    /\ calls = <<"detect_damage">>
    /\ scans = <<>>
    /\ clock = 0
    /\ threads = [t \in Threads |-> IdleThread]

DetectSeverity(s) ==
    /\ pc = "detect"
    /\ Len(damages) < MaxSevDamages
    /\ damages /= <<>> => SeverityRank(damages[Len(damages)]["severity"]) <= SeverityRank(s)
    /\ damages' = Append(damages, SeverityOnlyDamage(s))
    /\ UNCHANGED <<cost_data, severity_assessment, target_currency, cost_estimate, pc,
                   detection_result, report, calls, scans, clock, threads>>

NextSeverity ==
    \/ \E i \in 1..Len(SeverityInputs) : DetectSeverity(SeverityInputs[i])
    \/ AssessSeverity

SpecSeverity == InitSeverity /\ [][NextSeverity]_vars

(***************************************************************************)
(* Repair-time specification: estimate_repair_time over line-item lists     *)
(* whose labor hours are chosen freely.                                    *)
(***************************************************************************)
\* labor hours a catalog may list for one line item
LaborHoursInputs == {1, 2, 3, 6, 9}

\* the fields of a line item estimate_repair_time reads
HoursItem(labor_hours, action) == [labor_hours |-> labor_hours, action |-> action]

InitRepairTime ==
    /\ cost_data = CatalogA
    /\ damages = <<>>
    /\ severity_assessment = NoResult
    /\ target_currency = PyNone
    /\ cost_estimate = [line_items |-> <<>>, estimated_repair_days |-> estimate_repair_time(<<>>)]
    /\ pc = "estimated"
    /\ detection_result = NoResult
    /\ report = NoResult
    /\ calls = <<>>
    /\ scans = <<>>
    /\ clock = 0
    /\ threads = [t \in Threads |-> IdleThread]

\* estimate_repair_time applied to a list one line item longer
AddLineItem(labor_hours, action) ==
    /\ Len(cost_estimate["line_items"]) < MaxItems
    /\ LET line_items == Append(cost_estimate["line_items"], HoursItem(labor_hours, action))
       IN cost_estimate' = [line_items |-> line_items,
                            estimated_repair_days |-> estimate_repair_time(line_items)]
    /\ UNCHANGED <<cost_data, damages, severity_assessment, target_currency, pc,
                   detection_result, report, calls, scans, clock, threads>>

NextRepairTime ==
    \E labor_hours \in LaborHoursInputs, action \in {"Repair", "Replace"} :
        AddLineItem(labor_hours, action)

SpecRepairTime == InitRepairTime /\ [][NextRepairTime]_vars

(***************************************************************************)
(* Report specification: detect_damage, assess_severity, estimate_costs    *)
(* and generate_report (called without a file name) over short damage      *)
(* lists that include a damage without a part, a part named unknown and an *)
(* empty part.  datetime.now() never goes back: a reading is the last      *)
(* reading or a later second.                                              *)
(***************************************************************************)
\* longest damage list a report is generated for
MaxReportDamages == 2
\* last clock reading, in seconds since the process started
MaxClock == 1

ReportDamages ==
    {Damage("front_bumper", "dent", "minor"),
     Damage("front_bumper", "crack", "severe"),
     Damage("unknown", "dent", "minor"),
     Damage("", "dent", "minor"),
     [damage_type |-> "crack", severity |-> "severe"]}

InitReport ==
    /\ cost_data = CatalogA
    /\ damages = <<>>
    /\ severity_assessment = NoResult
    /\ target_currency = PyNone
    /\ cost_estimate = NoResult
    /\ pc = "detect"
    /\ detection_result = [vehicle_detected |-> TRUE, vehicle_type |-> "sedan"]
    /\ report = NoResult
    /\ calls = <<"detect_damage">>
    /\ scans = <<>>
    /\ clock = 0
    /\ threads = [t \in Threads |-> IdleThread]

DetectReportDamage(d) ==
    /\ pc = "detect"
    /\ Len(damages) < MaxReportDamages
    /\ damages' = Append(damages, d)
    /\ UNCHANGED <<cost_data, severity_assessment, target_currency, cost_estimate, pc,
                   detection_result, report, calls, scans, clock, threads>>

\* the verdict after generate_report: the entries of its breakdown are the
\* entries of report['damage_assessment']['damages'], the same objects, so
\* what enrichment writes shows in the verdict
VerdictAfterReport(sa, ce) ==
    IF "breakdown" \in DOMAIN sa
    THEN [sa EXCEPT !["breakdown"] = EnrichedDamages(sa, ce)]
    ELSE sa

\* generate_report reads the clock twice and returns the report
GenerateReport ==
    /\ pc = "estimated"
    /\ \E now \in clock..MaxClock :
        \E later \in now..MaxClock :
            /\ report' = generate_report(detection_result, severity_assessment, cost_estimate,
                                         PyNone, now, later)
            /\ clock' = later
    /\ severity_assessment' = VerdictAfterReport(severity_assessment, cost_estimate)
    /\ calls' = Append(calls, "generate_report")
    /\ pc' = "reported"
    /\ UNCHANGED <<cost_data, damages, target_currency, cost_estimate,
                   detection_result, scans, threads>>

NextReport ==
    \/ \E d \in ReportDamages : DetectReportDamage(d)
    \/ AssessSeverity
    \/ \E cur \in {"INR", "USD"} : EstimateCosts(cur)
    \/ GenerateReport

SpecReport == InitReport /\ [][NextReport]_vars

(***************************************************************************)
(* Enrichment specification: generate_report on verdicts and cost          *)
(* estimates chosen freely, with line items whose costs may hold None.     *)
(***************************************************************************)
\* longest breakdown and longest line-item list handed to generate_report
MaxEnrichItems == 2

\* a line item of part key with the keys in none_fields holding None
EnrichItem(key, none_fields) ==
    [part_key |-> key,
     part_cost |-> IF "part_cost" \in none_fields THEN 0 ELSE 10000,
     labor_cost |-> IF "labor_cost" \in none_fields THEN 0 ELSE 2050,
     paint_cost |-> IF "paint_cost" \in none_fields THEN 0 ELSE 301,
     subtotal |-> IF "subtotal" \in none_fields THEN 0 ELSE 12351,
     none_fields |-> none_fields]

EnrichItems ==
    {EnrichItem(key, none_fields) :
        key \in {"door", "hood"}, none_fields \in {{}, {"part_cost"}, {"labor_cost"}}}

EnrichEntries == {[part |-> "door", severity |-> "minor"], [part |-> "hood", severity |-> "severe"]}

\* the sequences over S of length at most n
SeqsUpTo(S, n) == UNION {[1..k -> S] : k \in 0..n}

InitEnrich ==
    /\ cost_data = CatalogA
    /\ damages = <<>>
    /\ severity_assessment \in
        {[overall |-> "minor", label |-> "Minor", breakdown |-> b] :
            b \in SeqsUpTo(EnrichEntries, MaxEnrichItems)}
    /\ target_currency = PyNone
    /\ cost_estimate \in
        {[summary |-> [total |-> 0], line_items |-> li,
          recommendation |-> [status |-> "PRE-APPROVED"], estimated_repair_days |-> 1] :
            li \in SeqsUpTo(EnrichItems, MaxEnrichItems)}
    /\ pc = "estimated"
    /\ detection_result = NoResult
    /\ report = NoResult
    /\ calls = <<>>
    /\ scans = <<>>
    /\ clock = 0
    /\ threads = [t \in Threads |-> IdleThread]

NextEnrich == GenerateReport

SpecEnrich == InitEnrich /\ [][NextEnrich]_vars

(***************************************************************************)
(* Handler specification: the Flask handler analyze (app.py) and the       *)
(* FastAPI handler analyze_image (main.py).  The Flask server runs each    *)
(* request in a thread of its own, so requests overlap: a thread is        *)
(* between two steps while another one takes a step.  analyze_image        *)
(* never awaits, so one FastAPI request is finished before the next one    *)
(* starts; the FastAPI server is another process, and its requests         *)
(* overlap with those of the Flask server.  The catalog file, the clock    *)
(* and the scans collection are shared; everything else is local to the    *)
(* request.  Any exception after the file-type check is answered with 500: *)
(* detect_damage raises when the upload cannot be read as an image, and    *)
(* estimate_costs raises when the catalog file is missing.                 *)
(***************************************************************************)
\* most documents in the scans collection
MaxScans == 2

ALLOWED_EXTENSIONS == {"png", "jpg", "jpeg", "webp", "bmp"}

allowed_file(filename) ==
    Find(filename, ".") > 0 /\ Lower(Extension(filename)) \in ALLOWED_EXTENSIONS

\* the name the upload is stored under: the hex digits of a fresh uuid and
\* the lower-cased extension of the upload
ImageFilename(uuid, filename) == uuid \o "." \o Lower(Extension(filename))

\* uuid.uuid4().hex in thread t: requests in progress at the same time get
\* different digits
uuid4(t) == "0a1b2c3d" \o SubSeq("0123456789abcdef", t, t)

\* requests.  Flask: a logged-in session uploading car.JPG, notes.txt, a file
\* with an empty name, or no image part at all, and an anonymous session
\* that chose USD uploading car.jpg.  FastAPI: car.png in the default
\* currency, and a file name without a dot.
RequestInputs ==
    {[handler |-> "flask", filename |-> f, session |-> [user |-> [id |-> "u1"]]] :
        f \in {"car.JPG", "notes.txt", ""}}
    \cup
    {[handler |-> "flask", session |-> [user |-> [id |-> "u1"]]],
     [handler |-> "flask", filename |-> "car.jpg", session |-> [currency |-> "USD"]],
     [handler |-> "fastapi", filename |-> "car.png", currency |-> "INR"],
     [handler |-> "fastapi", filename |-> "Makefile", currency |-> "INR"]}

\* what detect_damage may return: a vehicle with one damage, no vehicle, a
\* result without the vehicle_detected key, a vehicle without a damages key
DetectionInputs ==
    {[vehicle_detected |-> TRUE, vehicle_type |-> "sedan", vehicle_color |-> "detected",
      damages |-> <<Damage("windshield", "shatter", "severe")>>, drivable |-> FALSE],
     [vehicle_detected |-> FALSE, vehicle_type |-> "sedan", vehicle_color |-> "detected",
      damages |-> <<>>, drivable |-> TRUE],
     [damages |-> <<Damage("front_bumper", "dent", "minor")>>],
     [vehicle_detected |-> TRUE]}

\* the catalog file does not exist
NoCatalog == [missing |-> TRUE]

\* the currency the handler passes to estimate_costs
TargetCurrency(req) ==
    IF req["handler"] = "flask"
    THEN Get(req["session"], "currency", "INR")
    ELSE Get(req, "currency", "INR")

\* the answer to a request with the error message: jsonify({'error': ...})
\* in Flask, HTTPException(detail=...) in FastAPI
ErrorResponse(req, status, message) ==
    IF req["handler"] = "flask"
    THEN [status |-> status, error |-> message]
    ELSE [status |-> status, detail |-> message]

\* the checks before the try block: the answer that ends the request, or
\* NoResult when the request passes them
Rejection(req) ==
    IF req["handler"] = "flask" /\ "filename" \notin DOMAIN req
    THEN ErrorResponse(req, 400, "No image file provided")
    ELSE IF req["handler"] = "flask" /\ req["filename"] = ""
    THEN ErrorResponse(req, 400, "No file selected")
    ELSE IF ~allowed_file(req["filename"])
    THEN ErrorResponse(req, 400, "Invalid file type. Allowed: png, jpg, jpeg, webp, bmp")
    ELSE NoResult

\* the answer of the except branch to an exception whose str() is message
AnalysisFailed(req, message) ==
    IF req["handler"] = "flask"
    THEN ErrorResponse(req, 500, "Analysis failed: " \o message)
    ELSE ErrorResponse(req, 500, message)

\* the requests that pass the checks before the try block
AcceptedRequests == {req \in RequestInputs : Rejection(req) = NoResult}

\* the Flask handler saves the scan of a logged-in session
Saves(req) == req["handler"] = "flask" /\ "user" \in DOMAIN req["session"]

\* thread t is not handling a request
Free(t) == threads[t]["pc"] \in {"idle", "responded"}

\* thread t can take the request: it is free, and no other FastAPI request
\* is in progress when the request is a FastAPI one
Admits(t, req) ==
    /\ Free(t)
    /\ req["handler"] = "fastapi" =>
        \A u \in {v \in Threads : ~Free(v)} : threads[u]["request"]["handler"] /= "fastapi"

InitHandler ==
    /\ cost_data \in {CatalogA, NoCatalog}
    /\ damages = <<>>
    /\ severity_assessment = NoResult
    /\ target_currency = PyNone
    /\ cost_estimate = NoResult
    /\ pc = "idle"
    /\ detection_result = NoResult
    /\ report = NoResult
    /\ calls = <<>>
    /\ scans = <<>>
    /\ clock = 0
    /\ threads = [t \in Threads |-> IdleThread]

\* a request that fails a check before the try block is answered with 400
RejectUpload(t, req) ==
    /\ Admits(t, req)
    /\ req \notin AcceptedRequests
    /\ threads' = [threads EXCEPT ![t] =
            [IdleThread EXCEPT !["pc"] = "responded",
                               !["request"] = req,
                               !["response"] = Rejection(req)]]
    /\ UNCHANGED <<cost_data, damages, severity_assessment, target_currency, cost_estimate, pc,
                   detection_result, report, calls, scans, clock>>

\* a request that passes the checks: the upload is stored and detect_damage
\* returns dr
ReceiveUpload(t, req, dr) ==
    /\ Admits(t, req)
    /\ req \in AcceptedRequests
    /\ Len(scans) + Cardinality({u \in Threads : ~Free(u)}) < MaxScans
    /\ threads' = [threads EXCEPT ![t] =
            [IdleThread EXCEPT !["pc"] = "detect",
                               !["request"] = req,
                               !["filename"] = ImageFilename(uuid4(t), req["filename"]),
                               !["detection_result"] = dr,
                               !["calls"] = <<"detect_damage">>]]
    /\ UNCHANGED <<cost_data, damages, severity_assessment, target_currency, cost_estimate, pc,
                   detection_result, report, calls, scans, clock>>

\* a request that passes the checks with an upload cv2.imread cannot read:
\* detect_damage raises and the except branch answers
DetectDamageRaises(t, req) ==
    /\ Admits(t, req)
    /\ req \in AcceptedRequests
    /\ threads' = [threads EXCEPT ![t] =
            [IdleThread EXCEPT !["pc"] = "responded",
                               !["request"] = req,
                               !["filename"] = ImageFilename(uuid4(t), req["filename"]),
                               !["calls"] = <<"detect_damage">>,
                               !["response"] = AnalysisFailed(req,
                                    "Could not read image at uploads/"
                                    \o ImageFilename(uuid4(t), req["filename"]))]]
    /\ UNCHANGED <<cost_data, damages, severity_assessment, target_currency, cost_estimate, pc,
                   detection_result, report, calls, scans, clock>>

\* no vehicle in the detection result: 400, nothing else runs
RejectNoVehicle(t) ==
    /\ threads[t]["pc"] = "detect"
    /\ ~VehicleDetected(threads[t]["detection_result"])
    /\ threads' = [threads EXCEPT
            ![t]["response"] = ErrorResponse(threads[t]["request"], 400,
                "No vehicle detected in the image. Please upload a clear photo of a damaged vehicle."),
            ![t]["pc"] = "responded"]
    /\ UNCHANGED <<cost_data, damages, severity_assessment, target_currency, cost_estimate, pc,
                   detection_result, report, calls, scans, clock>>

AssessSeverityIn(t) ==
    /\ threads[t]["pc"] = "detect"
    /\ VehicleDetected(threads[t]["detection_result"])
    /\ threads' = [threads EXCEPT
            ![t]["severity_assessment"] =
                assess_severity(Get(threads[t]["detection_result"], "damages", <<>>)),
            ![t]["calls"] = Append(@, "assess_severity"),
            ![t]["pc"] = "assessed"]
    /\ UNCHANGED <<cost_data, damages, severity_assessment, target_currency, cost_estimate, pc,
                   detection_result, report, calls, scans, clock>>

EstimateCostsIn(t) ==
    /\ threads[t]["pc"] = "assessed"
    /\ cost_data /= NoCatalog
    /\ threads' = [threads EXCEPT
            ![t]["cost_estimate"] =
                estimate_costs(Get(threads[t]["detection_result"], "damages", <<>>),
                               threads[t]["severity_assessment"],
                               TargetCurrency(threads[t]["request"]), load_cost_data),
            ![t]["calls"] = Append(@, "estimate_costs"),
            ![t]["pc"] = "estimated"]
    /\ UNCHANGED <<cost_data, damages, severity_assessment, target_currency, cost_estimate, pc,
                   detection_result, report, calls, scans, clock>>

\* load_cost_data raises inside estimate_costs and the except branch answers
EstimateCostsRaises(t) ==
    /\ threads[t]["pc"] = "assessed"
    /\ cost_data = NoCatalog
    /\ threads' = [threads EXCEPT
            ![t]["calls"] = Append(@, "estimate_costs"),
            ![t]["response"] = AnalysisFailed(threads[t]["request"],
                "[Errno 2] No such file or directory: 'database/cost_data.json'"),
            ![t]["pc"] = "responded"]
    /\ UNCHANGED <<cost_data, damages, severity_assessment, target_currency, cost_estimate, pc,
                   detection_result, report, calls, scans, clock>>

\* generate_report is called and reads the clock for report_id
BeginReport(t) ==
    /\ threads[t]["pc"] = "estimated"
    /\ \E now \in clock..MaxClock :
        /\ clock' = now
        /\ threads' = [threads EXCEPT
                ![t]["report_id_read"] = now,
                ![t]["calls"] = Append(@, "generate_report"),
                ![t]["pc"] = "reporting"]
    /\ UNCHANGED <<cost_data, damages, severity_assessment, target_currency, cost_estimate, pc,
                   detection_result, report, calls, scans>>

\* generate_report reads the clock for generated_at and returns; the handler
\* adds the image fields
FinishReport(t) ==
    /\ threads[t]["pc"] = "reporting"
    /\ \E later \in clock..MaxClock :
        /\ clock' = later
        /\ threads' = [threads EXCEPT
                ![t]["report"] =
                    [image_url |-> "/uploads/" \o threads[t]["filename"],
                     image_metadata |-> "metadata"]
                    @@ generate_report(threads[t]["detection_result"],
                                       threads[t]["severity_assessment"],
                                       threads[t]["cost_estimate"],
                                       threads[t]["filename"],
                                       threads[t]["report_id_read"], later),
                ![t]["severity_assessment"] =
                    VerdictAfterReport(@, threads[t]["cost_estimate"]),
                ![t]["pc"] = "reported"]
    /\ UNCHANGED <<cost_data, damages, severity_assessment, target_currency, cost_estimate, pc,
                   detection_result, report, calls, scans>>

\* save_scan for a logged-in session: insert_one stores the document and
\* returns its id, or raises (the handler prints the error and goes on)
SaveScan(t, db_ok) ==
    /\ threads[t]["pc"] = "reported"
    /\ Saves(threads[t]["request"])
    /\ scans' = IF db_ok
                THEN Append(scans, save_scan(threads[t]["request"]["session"]["user"]["id"],
                                             threads[t]["report"]))
                ELSE scans
    /\ threads' = [threads EXCEPT
            ![t]["insert_result"] = IF db_ok THEN [inserted_id |-> Len(scans) + 1] ELSE NoResult,
            ![t]["calls"] = Append(@, "save_scan"),
            ![t]["pc"] = "saved"]
    /\ UNCHANGED <<cost_data, damages, severity_assessment, target_currency, cost_estimate, pc,
                   detection_result, report, calls, clock>>

\* the id of a stored scan is put into the report, and the report is returned
Respond(t) ==
    /\ \/ threads[t]["pc"] = "saved"
       \/ threads[t]["pc"] = "reported" /\ ~Saves(threads[t]["request"])
    /\ LET returned ==
            IF threads[t]["insert_result"] /= NoResult
            THEN [scan_db_id |-> threads[t]["insert_result"]["inserted_id"]] @@ threads[t]["report"]
            ELSE threads[t]["report"]
       IN threads' = [threads EXCEPT
            ![t]["report"] = returned,
            ![t]["response"] = [status |-> 200, body |-> returned],
            ![t]["pc"] = "responded"]
    /\ UNCHANGED <<cost_data, damages, severity_assessment, target_currency, cost_estimate, pc,
                   detection_result, report, calls, scans, clock>>

NextHandler ==
    \/ \E t \in Threads, req \in RequestInputs : RejectUpload(t, req)
    \/ \E t \in Threads, req \in RequestInputs, dr \in DetectionInputs : ReceiveUpload(t, req, dr)
    \/ \E t \in Threads, req \in RequestInputs : DetectDamageRaises(t, req)
    \/ \E t \in Threads : RejectNoVehicle(t)
    \/ \E t \in Threads : AssessSeverityIn(t)
    \/ \E t \in Threads : EstimateCostsIn(t)
    \/ \E t \in Threads : EstimateCostsRaises(t)
    \/ \E t \in Threads : BeginReport(t)
    \/ \E t \in Threads : FinishReport(t)
    \/ \E t \in Threads, db_ok \in BOOLEAN : SaveScan(t, db_ok)
    \/ \E t \in Threads : Respond(t)

SpecHandler == InitHandler /\ [][NextHandler]_vars

(***************************************************************************)
(* Claims                                                                  *)
(***************************************************************************)

\* C1 (as stated): for a non-empty damage list, score is the mean of the
\* weights (minor 1, moderate 2, severe 3, anything else 1) rounded to two
\* decimals, and the band before escalation is the one selected by that
\* reported score (<= 1.30 minor, <= 2.30 moderate, else severe).
C1_BandOfReportedScore ==
    (pc = "assessed" /\ damages /= <<>>) =>
        LET n == Len(damages)
            c2 == Cardinality({i \in 1..n : Get(damages[i], "severity", "minor") = "moderate"})
            c3 == Cardinality({i \in 1..n : Get(damages[i], "severity", "minor") = "severe"})
            W == n + c2 + 2 * c3
            score == severity_assessment["score"]
            err == IF 100 * W >= score * n THEN 100 * W - score * n ELSE score * n - 100 * W
            band == IF score <= 130 THEN "minor" ELSE IF score <= 230 THEN "moderate" ELSE "severe"
            expected == IF c3 > 0 /\ band = "minor" THEN "moderate" ELSE band
        IN /\ 2 * err <= n
           /\ severity_assessment["overall"] = expected

\* C1 (amended): score is the mean of the weights rounded to two decimals,
\* and the band before escalation is the one selected by the unrounded mean
\* (mean <= 1.3 minor, 1.3 < mean <= 2.3 moderate, mean > 2.3 severe).
C1_ScoreAndBandOfMean ==
    (pc = "assessed" /\ damages /= <<>>) =>
        LET n == Len(damages)
            c2 == Cardinality({i \in 1..n : Get(damages[i], "severity", "minor") = "moderate"})
            c3 == Cardinality({i \in 1..n : Get(damages[i], "severity", "minor") = "severe"})
            W == n + c2 + 2 * c3
            score == severity_assessment["score"]
            err == IF 100 * W >= score * n THEN 100 * W - score * n ELSE score * n - 100 * W
            band == IF 10 * W <= 13 * n THEN "minor" ELSE IF 10 * W <= 23 * n THEN "moderate" ELSE "severe"
            expected == IF c3 > 0 /\ band = "minor" THEN "moderate" ELSE band
        IN /\ 2 * err <= n
           /\ severity_assessment["overall"] = expected

\* C1 witness: 23 damages without a severe one whose mean 30/23 is above 1.3
\* and is reported as 1.30, assessed moderate.
C1_Witness ==
    /\ pc = "assessed"
    /\ Len(damages) = 23
    /\ \A i \in 1..Len(damages) : damages[i]["severity"] /= "severe"
    /\ severity_assessment["score"] = 130
    /\ severity_assessment["overall"] = "moderate"

\* C2: escalation is exactly one step.  With a severe damage in a non-empty
\* list the verdict is never minor (a threshold-derived minor becomes
\* moderate) and is severe only when the mean weight is above 2.3; without a
\* severe damage the threshold-derived verdict is returned unchanged.
C2_EscalationOneStep ==
    (pc = "assessed" /\ damages /= <<>>) =>
        LET n == Len(damages)
            c2 == Cardinality({i \in 1..n : Get(damages[i], "severity", "minor") = "moderate"})
            c3 == Cardinality({i \in 1..n : Get(damages[i], "severity", "minor") = "severe"})
            W == n + c2 + 2 * c3
            overall == severity_assessment["overall"]
        IN IF c3 > 0
           THEN /\ overall /= "minor"
                /\ (10 * W <= 13 * n => overall = "moderate")
                /\ (overall = "severe" => 10 * W > 23 * n)
           ELSE /\ (10 * W <= 13 * n => overall = "minor")
                /\ (10 * W > 13 * n /\ 10 * W <= 23 * n => overall = "moderate")
                /\ (10 * W > 23 * n => overall = "severe")

\* C2 witness: one severe damage among at least six minor ones, threshold
\* band minor, verdict moderate.
C2_Witness ==
    /\ pc = "assessed"
    /\ Len(damages) >= 7
    /\ Cardinality({i \in 1..Len(damages) : damages[i]["severity"] = "severe"}) = 1
    /\ \A i \in 1..Len(damages) : damages[i]["severity"] \in {"minor", "severe"}
    /\ severity_assessment["overall"] = "moderate"

\* C3: a line item's action is Replace exactly when the damage's severity is
\* severe or its damage_type is shatter or structural, otherwise Repair; the
\* action selects the cost range and the labor-hours figure of the item.
C3_ReplaceDecision ==
    pc = "estimated" =>
        \A i \in 1..Len(damages) :
            LET item == cost_estimate["line_items"][i]
                severity == Get(damages[i], "severity", "minor")
                damage_type == Get(damages[i], "damage_type", "scratch")
                replace == severity = "severe" \/ damage_type = "shatter" \/ damage_type = "structural"
                info == PartInfo(load_cost_data, Get(damages[i], "part", ""))
                rate == ResolveCurrency(load_cost_data, target_currency)["rate"]
                range == IF item["action"] = "Replace" THEN info["replacement_cost"] ELSE info["repair_cost"]
                hours == IF item["action"] = "Replace" THEN info["labor_hours"]["replacement"]
                         ELSE info["labor_hours"]["repair"]
            IN /\ item["action"] = (IF replace THEN "Replace" ELSE "Repair")
               /\ item["labor_hours"] = hours
               /\ item["part_cost"] = Round2(FMul(Interpolate(range, Multiplier(load_cost_data, severity)), rate))

\* C3 witness: an estimate with a minor structural damage priced as Replace
\* next to a damage priced as Repair.
C3_Witness ==
    /\ pc = "estimated"
    /\ \E i, j \in 1..Len(damages) :
        /\ Get(damages[i], "damage_type", "scratch") = "structural"
        /\ Get(damages[i], "severity", "minor") = "minor"
        /\ cost_estimate["line_items"][i]["action"] = "Replace"
        /\ cost_estimate["line_items"][j]["action"] = "Repair"

\* C4 (as stated): a line item's paint_cost is 0, and nothing is added to
\* the paint total, exactly when damage_type is shatter or crack and part is
\* headlight, taillight, windshield or side_mirror; otherwise the
\* interpolated paint cost is in the line item and in the summary's
\* total_paint.
C4_PaintZeroIffSuppressed ==
    pc = "estimated" =>
        LET n == Len(damages)
            rate == ResolveCurrency(load_cost_data, target_currency)["rate"]
            Suppressed(i) ==
                /\ Get(damages[i], "damage_type", "scratch") \in {"shatter", "crack"}
                /\ Get(damages[i], "part", "") \in {"headlight", "taillight", "windshield", "side_mirror"}
            Paint(i) == Interpolate(cost_data["paint_cost_per_panel"],
                                    Multiplier(load_cost_data, Get(damages[i], "severity", "minor")))
        IN /\ \A i \in 1..n :
                /\ cost_estimate["line_items"][i]["paint_cost"] = 0 <=> Suppressed(i)
                /\ ~Suppressed(i) => cost_estimate["line_items"][i]["paint_cost"] = Round2(FMul(Paint(i), rate))
           /\ cost_estimate["summary"]["total_paint"] =
                Round2(FMul(FSum([i \in 1..n |-> IF Suppressed(i) THEN FromInt(0) ELSE Paint(i)]), rate))

\* C4 (amended): when damage_type is shatter or crack and part is headlight,
\* taillight, windshield or side_mirror the line item's paint_cost is 0 and
\* nothing is added to the paint total; otherwise the interpolated paint cost
\* is in the line item, converted and rounded to two decimals, and in the
\* summary's total_paint.  An included paint cost is itself 0 when the
\* interpolated cost is 0 and is positive when the interpolated cost times
\* the rate is 0.01 or more (X / Y below is that product, from the catalog's
\* decimal figures).
C4_PaintSuppression ==
    pc = "estimated" =>
        LET n == Len(damages)
            rate == ResolveCurrency(load_cost_data, target_currency)["rate"]
            Suppressed(i) ==
                /\ Get(damages[i], "damage_type", "scratch") \in {"shatter", "crack"}
                /\ Get(damages[i], "part", "") \in {"headlight", "taillight", "windshield", "side_mirror"}
            Paint(i) == Interpolate(cost_data["paint_cost_per_panel"],
                                    Multiplier(load_cost_data, Get(damages[i], "severity", "minor")))
            range == cost_data["paint_cost_per_panel"]
            r == IF target_currency \in DOMAIN cost_data["exchange_rates"]
                 THEN cost_data["exchange_rates"][target_currency]["rate"]
                 ELSE Rat(1, 1)
            m(i) == Get(cost_data["severity_multipliers"], Get(damages[i], "severity", "minor"), Rat(1, 2))
            X(i) == (range["min"] * m(i).d + (range["max"] - range["min"]) * m(i).n) * r.n
            Y(i) == m(i).d * r.d
        IN /\ \A i \in 1..n :
                /\ Suppressed(i) => cost_estimate["line_items"][i]["paint_cost"] = 0
                /\ ~Suppressed(i) => cost_estimate["line_items"][i]["paint_cost"] = Round2(FMul(Paint(i), rate))
                /\ (~Suppressed(i) /\ X(i) = 0) => cost_estimate["line_items"][i]["paint_cost"] = 0
                /\ (~Suppressed(i) /\ 100 * X(i) >= Y(i)) => cost_estimate["line_items"][i]["paint_cost"] > 0
           /\ cost_estimate["summary"]["total_paint"] =
                Round2(FMul(FSum([i \in 1..n |-> IF Suppressed(i) THEN FromInt(0) ELSE Paint(i)]), rate))

\* C4 witness: under the catalog whose paint range starts at 0, a crack on
\* the side mirror priced without paint next to a dent on the side mirror
\* at multiplier 0, whose included paint cost is itself 0.
C4_Witness ==
    /\ pc = "estimated"
    /\ cost_data["paint_cost_per_panel"]["min"] = 0
    /\ \E i, j \in 1..Len(damages) :
        /\ Get(damages[i], "damage_type", "scratch") = "crack"
        /\ Get(damages[i], "part", "") = "side_mirror"
        /\ cost_estimate["line_items"][i]["paint_cost"] = 0
        /\ Get(damages[j], "damage_type", "scratch") = "dent"
        /\ Get(damages[j], "part", "") = "side_mirror"
        /\ cost_data["severity_multipliers"][damages[j]["severity"]].n = 0
        /\ cost_estimate["line_items"][j]["paint_cost"] = 0
        /\ cost_estimate["summary"]["total_paint"] = 0

\* C5: the recommendation status is REVIEW REQUIRED when the verdict's
\* overall is severe and PRE-APPROVED when it is minor or moderate, whatever
\* the total cost and the currency symbol.
C5_RecommendationStatus ==
    pc = "estimated" =>
        LET overall == severity_assessment["overall"]
            status == cost_estimate["recommendation"]["status"]
        IN /\ overall = "severe" => status = "REVIEW REQUIRED"
           /\ overall \in {"minor", "moderate"} => status = "PRE-APPROVED"

\* C5 witness: a moderate verdict pre-approved in a converted currency.
C5_Witness ==
    /\ pc = "estimated"
    /\ severity_assessment["overall"] = "moderate"
    /\ cost_estimate["recommendation"]["status"] = "PRE-APPROVED"
    /\ cost_estimate["summary"]["currency"] = "USD"
    /\ cost_estimate["summary"]["total"] > 0

\* C6: with H the total labor hours and H/6 not halfway between two
\* integers, estimated_repair_days is max(1, H/6 rounded to the nearest
\* integer), plus 2 exactly when some line item is a Replace; H = 12 gives 2
\* days without a Replace and 4 with one; the result is >= 1, and >= 3 when
\* any item is a Replace.
C6_RepairDays ==
    pc = "estimated" =>
        LET items == cost_estimate["line_items"]
            H == SumSeq([i \in 1..Len(items) |-> items[i]["labor_hours"]])
            replace == \E i \in 1..Len(items) : items[i]["action"] = "Replace"
            days == cost_estimate["estimated_repair_days"]
            buffer == IF replace THEN 2 ELSE 0
        IN /\ days >= 1
           /\ replace => days >= 3
           /\ H % 6 /= 3 =>
                \E k \in 0..H :
                    /\ 6 * k - H < 3
                    /\ H - 6 * k < 3
                    /\ days = (IF k > 1 THEN k ELSE 1) + buffer
           /\ H = 12 => days = (IF replace THEN 4 ELSE 2)

\* C6 witness: 12 labor hours with a Replace, estimated at 4 days.
C6_Witness ==
    /\ pc = "estimated"
    /\ SumSeq([i \in 1..Len(damages) |-> cost_estimate["line_items"][i]["labor_hours"]]) = 12
    /\ \E i \in 1..Len(damages) : cost_estimate["line_items"][i]["action"] = "Replace"
    /\ cost_estimate["estimated_repair_days"] = 4

\* C7: the tax applied is the catalog's tax_rate: summary.tax_rate is the
\* catalog's tax_rate, summary.tax is base subtotal x catalog tax_rate x
\* exchange rate rounded to two decimals, and summary.total is
\* (subtotal + tax) x rate rounded to two decimals.
C7_CatalogTaxRate ==
    pc = "estimated" =>
        LET n == Len(damages)
            rate == ResolveCurrency(load_cost_data, target_currency)["rate"]
            priced == [i \in 1..n |-> PriceDamage(load_cost_data, damages[i], rate)]
            subtotal == FSum([i \in 1..n |-> FAdd(FAdd(priced[i]["part_cost_base"],
                                                       priced[i]["labor_cost_base"]),
                                                  priced[i]["paint_added"])])
            tax == FMul(subtotal, load_cost_data["tax_rate"])
        IN /\ cost_estimate["summary"]["tax_rate"] = load_cost_data["tax_rate"]
           /\ cost_estimate["summary"]["tax"] = Round2(FMul(tax, rate))
           /\ cost_estimate["summary"]["total"] = Round2(FMul(FAdd(subtotal, tax), rate))

\* C8: currency resolution never fails.  A target_currency that is a key of
\* exchange_rates gives that entry's rate and symbol and is reported; None,
\* empty or a non-key gives rate 1, the base code and the base symbol, and
\* the same estimate as an explicit base-currency request.
C8_CurrencyResolution ==
    pc = "estimated" =>
        LET ex == cost_data["exchange_rates"]
            summary == cost_estimate["summary"]
            items == cost_estimate["line_items"]
            labor == SumSeq([i \in 1..Len(items) |-> items[i]["labor_hours"]])
                     * cost_data["labor_rate_per_hour"]
        IN /\ Len(items) = Len(damages)
           /\ IF target_currency \in DOMAIN ex
              THEN /\ summary["currency"] = target_currency
                   /\ summary["symbol"] = ex[target_currency]["symbol"]
                   /\ summary["total_labor"] = Round2(FMul(FromInt(labor), Float(ex[target_currency]["rate"])))
              ELSE /\ summary["currency"] = "INR"
                   /\ summary["symbol"] = ex["INR"]["symbol"]
                   /\ summary["total_labor"] = 100 * labor
                   /\ cost_estimate = estimate_costs(damages, severity_assessment, "INR", load_cost_data)

\* C8 witness: a request for a currency the catalog does not list, priced in
\* the base currency.
C8_Witness ==
    /\ pc = "estimated"
    /\ target_currency = "GBP"
    /\ damages /= <<>>
    /\ cost_estimate["summary"]["currency"] = "INR"
    /\ cost_estimate["summary"]["total"] > 0

\* C9 (as stated): for every currency X of the exchange-rate mapping, with
\* any positive rate, the total in X differs by at most 0.01 from the
\* base-currency total of the same inputs multiplied by X's rate.
C9_RoundTripAnyRate ==
    (pc = "estimated" /\ target_currency \in DOMAIN cost_data["exchange_rates"]) =>
        LET rate == cost_data["exchange_rates"][target_currency]["rate"]
            total == cost_estimate["summary"]["total"]
            base == estimate_costs(damages, severity_assessment, "INR", load_cost_data)["summary"]["total"]
        IN /\ total * rate.d - base * rate.n <= rate.d
           /\ base * rate.n - total * rate.d <= rate.d

\* C9 (amended): the same, for every currency X whose rate is at most 1.
C9_RoundTripRateAtMostOne ==
    (pc = "estimated" /\ target_currency \in DOMAIN cost_data["exchange_rates"]) =>
        LET rate == cost_data["exchange_rates"][target_currency]["rate"]
            total == cost_estimate["summary"]["total"]
            base == estimate_costs(damages, severity_assessment, "INR", load_cost_data)["summary"]["total"]
        IN rate.n <= rate.d =>
            /\ total * rate.d - base * rate.n <= rate.d
            /\ base * rate.n - total * rate.d <= rate.d

\* C9 witness: an estimate in USD (rate 0.012) whose converted total is not
\* the base total times the rate, yet within 0.01 of it.
C9_Witness ==
    /\ pc = "estimated"
    /\ target_currency = "USD"
    /\ "USD" \in DOMAIN cost_data["exchange_rates"]
    /\ LET rate == cost_data["exchange_rates"]["USD"]["rate"]
           total == cost_estimate["summary"]["total"]
           base == estimate_costs(damages, severity_assessment, "INR", load_cost_data)["summary"]["total"]
       IN /\ total > 0
          /\ total * rate.d /= base * rate.n

\* C10 (as stated): the reported part_cost lies within [min*rate, max*rate]
\* of the range selected by the item's action.
C10_PartCostInRange ==
    pc = "estimated" =>
        \A i \in 1..Len(damages) :
            LET item == cost_estimate["line_items"][i]
                info == PartInfo(cost_data, item["part_key"])
                range == IF item["action"] = "Replace" THEN info["replacement_cost"] ELSE info["repair_cost"]
                rate == IF target_currency \in DOMAIN cost_data["exchange_rates"]
                        THEN cost_data["exchange_rates"][target_currency]["rate"]
                        ELSE Rat(1, 1)
            IN /\ 100 * range["min"] * rate.n <= item["part_cost"] * rate.d
               /\ item["part_cost"] * rate.d <= 100 * range["max"] * rate.n

\* C10 (amended): the reported part_cost lies within half a hundredth of
\* [min*rate, max*rate] of the range selected by the item's action: the
\* unrounded cost is in the range and rounding moves it by at most 0.005.
C10_PartCostInRangeRounded ==
    pc = "estimated" =>
        \A i \in 1..Len(damages) :
            LET item == cost_estimate["line_items"][i]
                info == PartInfo(cost_data, item["part_key"])
                range == IF item["action"] = "Replace" THEN info["replacement_cost"] ELSE info["repair_cost"]
                rate == IF target_currency \in DOMAIN cost_data["exchange_rates"]
                        THEN cost_data["exchange_rates"][target_currency]["rate"]
                        ELSE Rat(1, 1)
            IN /\ 200 * range["min"] * rate.n - rate.d <= 2 * item["part_cost"] * rate.d
               /\ 2 * item["part_cost"] * rate.d <= 200 * range["max"] * rate.n + rate.d

\* C10 witness: a severe windshield damage (multiplier 1) in USD, reported
\* above max*rate of the replacement range.
C10_Witness ==
    /\ pc = "estimated"
    /\ target_currency = "USD"
    /\ "USD" \in DOMAIN cost_data["exchange_rates"]
    /\ \E i \in 1..Len(damages) :
        LET item == cost_estimate["line_items"][i]
            info == PartInfo(cost_data, item["part_key"])
            rate == cost_data["exchange_rates"]["USD"]["rate"]
        IN /\ item["severity"] = "severe"
           /\ item["action"] = "Replace"
           /\ item["part_cost"] * rate.d > 100 * info["replacement_cost"]["max"] * rate.n

\* C11: in every currency a line item's reported subtotal is the sum of
\* its reported part_cost, labor_cost and paint_cost.
C11_SubtotalIsSumOfReported ==
    pc = "estimated" =>
        \A i \in 1..Len(damages) :
            LET item == cost_estimate["line_items"][i]
            IN item["subtotal"] = item["part_cost"] + item["labor_cost"] + item["paint_cost"]

\* C12: data-quality gaps never produce an error.  Every damage gets a line
\* item and a breakdown entry; a part the catalog does not list (or a
\* missing part) is priced with repair 4500-12000, replacement 15000-45000
\* and labor hours 2 / 3; an unknown severity is priced with multiplier 0.5
\* and scored with weight 1.
C12_DataQualityDefaults ==
    pc = "estimated" =>
        LET n == Len(damages)
            rate == ResolveCurrency(load_cost_data, target_currency)["rate"]
            c2 == Cardinality({i \in 1..n : Get(damages[i], "severity", "minor") = "moderate"})
            c3 == Cardinality({i \in 1..n : Get(damages[i], "severity", "minor") = "severe"})
            W == n + c2 + 2 * c3
            score == severity_assessment["score"]
            err == IF 100 * W >= score * n THEN 100 * W - score * n ELSE score * n - 100 * W
        IN /\ Len(cost_estimate["line_items"]) = n
           /\ Len(severity_assessment["breakdown"]) = n
           /\ 2 * err <= n
           /\ \A i \in 1..n :
                LET item == cost_estimate["line_items"][i]
                    part == Get(damages[i], "part", "")
                    severity == Get(damages[i], "severity", "minor")
                    known == part \in DOMAIN cost_data["parts"]
                    replace == item["action"] = "Replace"
                    lo == IF known
                          THEN (IF replace THEN cost_data["parts"][part]["replacement_cost"]["min"]
                                ELSE cost_data["parts"][part]["repair_cost"]["min"])
                          ELSE (IF replace THEN 15000 ELSE 4500)
                    hi == IF known
                          THEN (IF replace THEN cost_data["parts"][part]["replacement_cost"]["max"]
                                ELSE cost_data["parts"][part]["repair_cost"]["max"])
                          ELSE (IF replace THEN 45000 ELSE 12000)
                    m == IF severity \in {"minor", "moderate", "severe"}
                         THEN Float(cost_data["severity_multipliers"][severity])
                         ELSE Float(Rat(1, 2))
                IN /\ ~known => item["labor_hours"] = (IF replace THEN 3 ELSE 2)
                   /\ item["part_cost"] = Round2(FMul(FAdd(FromInt(lo), FMul(FromInt(hi - lo), m)), rate))

\* C12 witness: an estimate over a damage without a part key and a damage
\* with an unknown severity.
C12_Witness ==
    /\ pc = "estimated"
    /\ \E i, j \in 1..Len(damages) :
        /\ "part" \notin DOMAIN damages[i]
        /\ cost_estimate["line_items"][i]["labor_hours"] = 3
        /\ Get(damages[j], "severity", "minor") = "totaled"
        /\ cost_estimate["line_items"][j]["part_cost"] > 0

\* C13: for the empty damage list assess_severity returns overall none,
\* score 0 and an empty breakdown, and estimate_costs returns no line items,
\* every summary amount 0 and estimated_repair_days >= 1.
C13_EmptyDamageList ==
    (pc \in {"assessed", "estimated"} /\ damages = <<>>) =>
        /\ severity_assessment["overall"] = "none"
        /\ severity_assessment["score"] = 0
        /\ severity_assessment["breakdown"] = <<>>
        /\ pc = "estimated" =>
            /\ cost_estimate["line_items"] = <<>>
            /\ \A k \in {"total_parts", "total_labor", "total_paint", "subtotal", "tax", "total"} :
                cost_estimate["summary"][k] = 0
            /\ cost_estimate["estimated_repair_days"] >= 1

\* C13 witness: the empty list priced in USD, estimated at one day.
C13_Witness ==
    /\ pc = "estimated"
    /\ damages = <<>>
    /\ target_currency = "USD"
    /\ cost_estimate["summary"]["currency"] = "USD"
    /\ cost_estimate["estimated_repair_days"] = 1

\* C19: get_recommendation returns REVIEW REQUIRED for every overall other
\* than minor and moderate; the verdict of the empty damage list (overall
\* none, total 0) gets REVIEW REQUIRED, not PRE-APPROVED.
C19_ReviewUnlessMinorOrModerate ==
    pc = "estimated" =>
        /\ severity_assessment["overall"] \notin {"minor", "moderate"}
            => cost_estimate["recommendation"]["status"] = "REVIEW REQUIRED"
        /\ damages = <<>> =>
            /\ severity_assessment["overall"] = "none"
            /\ cost_estimate["summary"]["total"] = 0
            /\ cost_estimate["recommendation"]["status"] = "REVIEW REQUIRED"

\* C19 witness: the empty damage list with a recommendation to review.
C19_Witness ==
    /\ pc = "estimated"
    /\ damages = <<>>
    /\ severity_assessment["overall"] = "none"
    /\ cost_estimate["recommendation"]["status"] = "REVIEW REQUIRED"
    /\ cost_estimate["recommendation"]["message"]["amount"] = 0

\* C20: when total labor hours H divided by 6 is exactly halfway between two
\* integers the quotient is rounded to the even one before the floor of
\* one day and the replacement buffer: H = 3 gives 1 day, H = 9 gives 2,
\* H = 15 gives 2, H = 27 gives 4 (each plus 2 with a Replace item); and for
\* a fixed presence of Replace the days never decrease as H grows.
C20_HalfwayToEvenAndMonotone ==
    LET line_items == cost_estimate["line_items"]
        H == SumSeq([i \in 1..Len(line_items) |-> line_items[i]["labor_hours"]])
        replace == \E i \in 1..Len(line_items) : line_items[i]["action"] = "Replace"
        buffer == IF replace THEN 2 ELSE 0
        days == cost_estimate["estimated_repair_days"]
    IN /\ H = 3 => days = 1 + buffer
       /\ H = 9 => days = 2 + buffer
       /\ H = 15 => days = 2 + buffer
       /\ H = 27 => days = 4 + buffer
       /\ \A h \in 0..H :
            estimate_repair_time(<<[labor_hours |-> h,
                                    action |-> IF replace THEN "Replace" ELSE "Repair"]>>) <= days

\* C20 witness: 15 labor hours over two repaired items, estimated at 2 days.
C20_Witness ==
    /\ Len(cost_estimate["line_items"]) = 2
    /\ cost_estimate["line_items"][1]["labor_hours"] + cost_estimate["line_items"][2]["labor_hours"] = 15
    /\ \A i \in 1..2 : cost_estimate["line_items"][i]["action"] = "Repair"
    /\ cost_estimate["estimated_repair_days"] = 2

\* C14: generate_report leaves its inputs unchanged: after the call the
\* verdict (every entry of its breakdown), the cost estimate and the
\* detection result are what they were, so the reused verdict is identical
\* to a freshly computed one.
C14_InputsUnchanged ==
    pc = "reported" =>
        /\ severity_assessment = assess_severity(damages)
        /\ cost_estimate = estimate_costs(damages, assess_severity(damages),
                                          target_currency, load_cost_data)
        /\ detection_result = [vehicle_detected |-> TRUE, vehicle_type |-> "sedan"]

\* C15: every breakdown entry of the report whose part is the part_key of
\* some line item carries part_cost, labor_cost, paint_cost and total_cost
\* equal to the sums of part_cost, labor_cost, paint_cost and subtotal over
\* the line items with that part_key; and an enriched entry carries the
\* costs of exactly the line items produced from damages with its own part.
C15_EnrichmentFromOwnPart ==
    pc = "reported" =>
        LET entries == report["damage_assessment"]["damages"]
            items == report["line_items"]
            n == Len(damages)
            SumOver(J, f) == SumSeq([j \in 1..n |-> IF j \in J THEN items[j][f] ELSE 0])
            SamePart(a, b) ==
                /\ ("part" \in DOMAIN a) = ("part" \in DOMAIN b)
                /\ "part" \in DOMAIN a => a["part"] = b["part"]
        IN \A i \in 1..n :
            LET keyed == {j \in 1..n : items[j]["part_key"] = entries[i]["part"]}
                own == {j \in 1..n : SamePart(damages[i], damages[j])}
            IN /\ keyed /= {} =>
                    /\ "total_cost" \in DOMAIN entries[i]
                    /\ entries[i]["part_cost"] = SumOver(keyed, "part_cost")
                    /\ entries[i]["labor_cost"] = SumOver(keyed, "labor_cost")
                    /\ entries[i]["paint_cost"] = SumOver(keyed, "paint_cost")
                    /\ entries[i]["total_cost"] = SumOver(keyed, "subtotal")
               /\ "total_cost" \in DOMAIN entries[i] =>
                    entries[i]["total_cost"] = SumOver(own, "subtotal")

\* C16: when a step of cost enrichment fails (a += in the aggregation loop,
\* or a round while costs are attached to some entry), generate_report
\* still returns the report and no damage entry of the report carries an
\* enrichment field (part_cost, labor_cost, paint_cost, total_cost).
C16_EnrichmentAllOrNothing ==
    pc = "reported" =>
        LET entries == report["damage_assessment"]["damages"]
            items == cost_estimate["line_items"]
            ItemsOf(key) == {j \in 1..Len(items) : items[j]["part_key"] = key}
            HoldsNone(key) == \E j \in ItemsOf(key) : items[j]["none_fields"] /= {}
            aggregation_fails ==
                \E j \in 1..Len(items) :
                    /\ Cardinality(ItemsOf(items[j]["part_key"])) >= 2
                    /\ HoldsNone(items[j]["part_key"])
            attach_fails ==
                /\ ~aggregation_fails
                /\ \E i \in 1..Len(entries) : HoldsNone(entries[i]["part"])
        IN (aggregation_fails \/ attach_fails) =>
            /\ report["line_items"] = items
            /\ \A i \in 1..Len(entries) :
                DOMAIN entries[i] \cap {"part_cost", "labor_cost", "paint_cost", "total_cost"} = {}

\* C17: report identifiers are unique per call, also for two calls within
\* the same clock second, so no two persisted scans share a scan_id.
C17_ScanIdsUnique ==
    \A i, j \in 1..Len(scans) : i /= j => scans[i]["scan_id"] /= scans[j]["scan_id"]

\* C18: in both handlers and for every request, when the detection result
\* has vehicle_detected false or absent the request is answered with 400 and
\* assess_severity, estimate_costs, generate_report and save_scan are never
\* invoked; when it is true the functions invoked are, in this order,
\* assess_severity, estimate_costs, generate_report (and then save_scan): a
\* request answered with 200 has invoked all three, and the only other answer
\* is the 500 of a call that raised.
C18_VehicleGate ==
    \A t \in Threads :
        LET th == threads[t]
            dr == th["detection_result"]
            detected == "vehicle_detected" \in DOMAIN dr /\ dr["vehicle_detected"]
            order == <<"detect_damage", "assess_severity", "estimate_costs",
                       "generate_report", "save_scan">>
        IN dr /= NoResult =>
            /\ ~detected =>
                /\ th["calls"] = <<"detect_damage">>
                /\ th["severity_assessment"] = NoResult
                /\ th["cost_estimate"] = NoResult
                /\ th["report"] = NoResult
                /\ th["pc"] = "responded" => th["response"]["status"] = 400
            /\ detected =>
                /\ Len(th["calls"]) <= 5
                /\ \A k \in 1..Len(th["calls"]) : th["calls"][k] = order[k]
                /\ th["pc"] = "responded" =>
                    IF th["response"]["status"] = 200
                    THEN Len(th["calls"]) >= 4
                    ELSE /\ th["response"]["status"] = 500
                         /\ cost_data = NoCatalog
                         /\ th["calls"] = <<"detect_damage", "assess_severity", "estimate_costs">>

\* C18 witness: the FastAPI handler has answered 400 to a detection result
\* without the vehicle_detected key, having called detect_damage only, while
\* a Flask request whose vehicle was detected is between estimate_costs and
\* generate_report.
C18_Witness ==
    \E t, u \in Threads :
        /\ threads[t]["pc"] = "responded"
        /\ threads[t]["request"]["handler"] = "fastapi"
        /\ threads[t]["calls"] = <<"detect_damage">>
        /\ "vehicle_detected" \notin DOMAIN threads[t]["detection_result"]
        /\ Get(threads[t]["detection_result"], "damages", <<>>) /= <<>>
        /\ threads[t]["response"]["status"] = 400
        /\ threads[t]["report"] = NoResult
        /\ threads[u]["pc"] = "estimated"
        /\ threads[u]["request"]["handler"] = "flask"
        /\ threads[u]["calls"] = <<"detect_damage", "assess_severity", "estimate_costs">>

====
